---------------------------- MODULE Spec2Model ----------------------------
(***************************************************************************)
(* Four in a Row: the board engine (createBoard, dropPiece, checkWin,      *)
(* isBoardFull) and the GameState machine (reset, makeMove) of the game    *)
(* logic module.                                                           *)
(*                                                                         *)
(* Boards are indexed as in the code: board[row][col], row 0 is the top,   *)
(* rows 0..ROWS-1, columns 0..COLS-1.  JavaScript arrays are objects, so   *)
(* the functions that copy or write a board (cloneBoard, dropPiece) are    *)
(* modelled over an explicit heap of row arrays.  serialize/deserialize    *)
(* hand over the moveHistory array itself, so two GameState objects are    *)
(* modelled over a heap of moveHistory arrays.  The relay server of        *)
(* vite.config.js is modelled with the part of the client that keeps the   *)
(* player number.                                                          *)
(***************************************************************************)
EXTENDS Integers, Sequences, FiniteSets, TLC

ROWS == 6
COLS == 7
EMPTY == 0
PLAYER_RED == 1
PLAYER_YELLOW == 2

\* the JavaScript value null (winner before a win)
null == 0

Players == {PLAYER_RED, PLAYER_YELLOW}
RowIdx == 0 .. (ROWS - 1)
ColIdx == 0 .. (COLS - 1)

\* number of successful moves explored beyond the starting position
MaxMoves == 3

VARIABLES
    \* GameState fields
    board, currentPlayer, winner, winningCells, isDraw, moveHistory, gameOver,
    \* the last GameState call: its name, its argument, its return value
    op, arg, ret,
    \* successful moves made since the starting position
    moved,
    \* gameOver as it was when the last GameState call began
    wasOver,
    \* board engine called directly: input board, call, arguments, results
    inBoard, bop, bcol, bplayer, dropRet, winRet,
    \* two GameState objects "s" and "t", the heap of their moveHistory arrays,
    \* the object last returned by serialize(), the last call, moves made
    objs, hist, snap, cop, cobj, cmoved,
    \* relay server: the games Map, each connection's currentGameCode closure
    \* variable, the connected sockets, the socket.io rooms each socket is in,
    \* each client's NetworkManager.gameCode and playerNumber, Date.now(), the last
    \* handler run, its callback response and the events it emitted, messages handled
    games, currentGameCode, connected, subs, gameCode, playerNumber, now, sop, reply,
    emitted, steps,
    \* the game:create handler inside generateGameCode: its socket and the loop's code
    gen,
    \* the two client apps of a room (FourInARowApp: gameState, isProcessingMove,
    \* gameMode, the screen shown, the async handlers waiting in an await), the messages each socket
    \* has sent that the server has not handled yet, the events sent to each socket
    \* that its client has not handled yet, the last thing a client did, the moves
    \* made, the rematch requests sent and the leaves and joins made so far
    apps, toServer, inbox, aop, taps, asked, trips

gameFields == <<board, currentPlayer, winner, winningCells, isDraw, moveHistory, gameOver>>
gameVars == <<board, currentPlayer, winner, winningCells, isDraw, moveHistory, gameOver,
              op, arg, ret, moved, wasOver>>
engineVars == <<inBoard, bop, bcol, bplayer, dropRet, winRet>>
copyVars == <<objs, hist, snap, cop, cobj, cmoved>>
serverVars == <<games, currentGameCode, connected, subs, gameCode, playerNumber, now,
                sop, reply, emitted, steps, gen>>
clientVars == <<apps, toServer, inbox, aop, taps, asked, trips>>
vars == <<gameVars, engineVars, copyVars, serverVars, clientVars>>

\* the two-object part of the state while no specification uses it
CopyIdle ==
    /\ objs = << >>
    /\ hist = << >>
    /\ snap = << >>
    /\ cobj = "none"
    /\ cop = "none"
    /\ cmoved = 0

\* the server part of the state while no specification uses it
ServerIdle ==
    /\ games = << >>
    /\ currentGameCode = << >>
    /\ connected = {}
    /\ subs = << >>
    /\ gameCode = << >>
    /\ playerNumber = << >>
    /\ now = 0
    /\ sop = "none"
    /\ reply = "none"
    /\ emitted = {}
    /\ steps = 0
    /\ gen = "none"

\* the client part of the state while no specification uses it
ClientIdle ==
    /\ apps = << >>
    /\ toServer = << >>
    /\ inbox = << >>
    /\ aop = "none"
    /\ taps = 0
    /\ asked = 0
    /\ trips = 0

-----------------------------------------------------------------------------
(* Board engine *)

createBoard == [r \in RowIdx |-> [c \in ColIdx |-> EMPTY]]

Cell(r, c) == [row |-> r, col |-> c]

\* A heap of row arrays: address -> row.  A board object is its array of row
\* addresses.  Load puts a board value on a fresh heap, Deref reads it back.
BoardRefs == [r \in RowIdx |-> r]
Load(b) == [a \in RowIdx |-> b[a]]
Deref(heap, refs) == [r \in RowIdx |-> heap[refs[r]]]

\* a copy that shares the row arrays with its source (board.slice())
cloneBoardShallow(heap, refs) == [heap |-> heap, refs |-> refs]

\* board.map(row => [...row]): a new outer array of new row arrays
cloneBoard(heap, refs) ==
    LET base == Cardinality(DOMAIN heap)
    IN  [heap |-> [a \in (DOMAIN heap) \cup (base .. (base + ROWS - 1)) |->
                       IF a \in DOMAIN heap THEN heap[a] ELSE heap[refs[a - base]]],
         refs |-> [r \in RowIdx |-> base + r]]

RECURSIVE LowestFrom(_, _, _)
LowestFrom(b, col, row) ==
    IF row < 0 THEN -1
    ELSE IF b[row][col] = EMPTY THEN row
    ELSE LowestFrom(b, col, row - 1)

\* scans from the top: returns the highest empty row
getLowestEmptyRowTopDown(b, col) ==
    IF \E r \in RowIdx : b[r][col] = EMPTY
    THEN CHOOSE r \in RowIdx : b[r][col] = EMPTY /\ \A q \in RowIdx : b[q][col] = EMPTY => r <= q
    ELSE -1

\* loop that forgets the bottom row (row = ROWS - 2 as start)
getLowestEmptyRowSkipBottom(b, col) == LowestFrom(b, col, ROWS - 2)

\* returns the bottom row whether or not it is free
getLowestEmptyRowAlwaysBottom(b, col) == ROWS - 1

getLowestEmptyRow(b, col) == LowestFrom(b, col, ROWS - 1)

isColumnFull(b, col) == b[0][col] # EMPTY

\* board[0].some(...) instead of board[0].every(...)
isBoardFullSome(b) == \E c \in ColIdx : b[0][c] # EMPTY

\* board[ROWS - 1] instead of board[0]
isBoardFullBottom(b) == \A c \in ColIdx : b[ROWS - 1][c] # EMPTY

isBoardFull(b) == \A c \in ColIdx : b[0][c] # EMPTY

\* dropPiece over the heap: the result's board is a reference
dropPieceRef(heap, refs, col, player) ==
    IF col < 0 \/ col >= COLS
    THEN [success |-> FALSE, row |-> -1, refs |-> refs, heap |-> heap]
    ELSE LET row == getLowestEmptyRow(Deref(heap, refs), col)
         IN  IF row = -1
             THEN [success |-> FALSE, row |-> -1, refs |-> refs, heap |-> heap]
             ELSE LET new == cloneBoard(heap, refs)
                      adr == new.refs[row]
                  IN  [success |-> TRUE, row |-> row, refs |-> new.refs,
                       heap |-> [new.heap EXCEPT ![adr] = [@ EXCEPT ![col] = player]]]

\* dropPiece(board, col, player): the returned record, with the returned board
\* read back from the heap, and `input`: the argument board as it is after the call
dropPiece(b, col, player) ==
    LET r == dropPieceRef(Load(b), BoardRefs, col, player)
    IN  [success |-> r.success, row |-> r.row, board |-> Deref(r.heap, r.refs),
         input |-> Deref(r.heap, BoardRefs)]

-----------------------------------------------------------------------------
(* checkWin: four nested-loop scans, the first match returns *)

\* the four cells one step further along the direction
LineFromNext(row, col, dr, dc) ==
    << Cell(row + dr, col + dc), Cell(row + 2 * dr, col + 2 * dc),
       Cell(row + 3 * dr, col + 3 * dc), Cell(row + 4 * dr, col + 4 * dc) >>

\* the four cells tested at (row, col) in direction (dr, dc), in the order returned
Line(row, col, dr, dc) ==
    << Cell(row, col), Cell(row + dr, col + dc),
       Cell(row + 2 * dr, col + 2 * dc), Cell(row + 3 * dr, col + 3 * dc) >>

\* for (row; row <= rowHi; row++) for (col = 0; col <= colHi; col++) if (four equal) return
RECURSIVE Scan(_, _, _, _, _, _, _, _)
Scan(b, player, row, col, rowHi, colHi, dr, dc) ==
    IF row > rowHi THEN << >>
    ELSE IF col > colHi THEN Scan(b, player, row + 1, 0, rowHi, colHi, dr, dc)
    ELSE IF \A i \in 0 .. 3 : b[row + i * dr][col + i * dc] = player
         THEN Line(row, col, dr, dc)
         ELSE Scan(b, player, row, col + 1, rowHi, colHi, dr, dc)

\* col < COLS - 4 instead of col <= COLS - 4
checkHorizontalShort(b, player) == Scan(b, player, 0, 0, ROWS - 1, COLS - 5, 0, 1)

checkHorizontal(b, player) == Scan(b, player, 0, 0, ROWS - 1, COLS - 4, 0, 1)

checkVertical(b, player) == Scan(b, player, 0, 0, ROWS - 4, COLS - 1, 1, 0)

checkDiagUp(b, player) == Scan(b, player, 3, 0, ROWS - 1, COLS - 4, -1, 1)

checkDiagDown(b, player) == Scan(b, player, 0, 0, ROWS - 4, COLS - 4, 1, 1)

Won(cells) == [won |-> TRUE, cells |-> cells]

\* the vertical scan placed before the horizontal one
checkWinVerticalFirst(b, player) ==
    IF checkVertical(b, player) # << >> THEN Won(checkVertical(b, player))
    ELSE IF checkHorizontal(b, player) # << >> THEN Won(checkHorizontal(b, player))
    ELSE IF checkDiagUp(b, player) # << >> THEN Won(checkDiagUp(b, player))
    ELSE IF checkDiagDown(b, player) # << >> THEN Won(checkDiagDown(b, player))
    ELSE [won |-> FALSE, cells |-> << >>]

checkWin(b, player) ==
    LET h == checkHorizontal(b, player)
    IN  IF h # << >> THEN Won(h)
        ELSE LET v == checkVertical(b, player)
             IN  IF v # << >> THEN Won(v)
                 ELSE LET u == checkDiagUp(b, player)
                      IN  IF u # << >> THEN Won(u)
                          ELSE LET d == checkDiagDown(b, player)
                               IN  IF d # << >> THEN Won(d)
                                   ELSE [won |-> FALSE, cells |-> << >>]

\* player === PLAYER_RED ? player : PLAYER_RED (no flip for red)
getOtherPlayerStuck(player) == IF player = PLAYER_RED THEN PLAYER_RED ELSE PLAYER_RED

getOtherPlayer(player) == IF player = PLAYER_RED THEN PLAYER_YELLOW ELSE PLAYER_RED

-----------------------------------------------------------------------------
(* GameState *)

\* the fields of a GameState object as one record
This ==
    [board |-> board, currentPlayer |-> currentPlayer, winner |-> winner,
     winningCells |-> winningCells, isDraw |-> isDraw, moveHistory |-> moveHistory,
     gameOver |-> gameOver]

\* the state reset() assigns
Fresh ==
    [board |-> createBoard, currentPlayer |-> PLAYER_RED, winner |-> null,
     winningCells |-> << >>, isDraw |-> FALSE, moveHistory |-> << >>,
     gameOver |-> FALSE]

\* the value both failure returns of makeMove carry
Rejected ==
    [success |-> FALSE, row |-> -1, winner |-> null, winningCells |-> << >>,
     isDraw |-> FALSE]

\* a guard that never fires
IsOverNever(gs) == FALSE

\* if (this.gameOver)
IsOver(gs) == gs.gameOver

\* a test that lets a failed drop through
DropFailedNever(result) == FALSE

\* if (!result.success)
DropFailed(result) == ~ result.success

\* moveHistory.unshift(...) instead of push(...)
PlaceUnshift(gs, col, result) ==
    [gs EXCEPT !.board = result.board,
               !.moveHistory = << [col |-> col, row |-> result.row,
                                   player |-> gs.currentPlayer] >> \o @]

\* this.board = result.board without the moveHistory.push
PlaceNoPush(gs, col, result) == [gs EXCEPT !.board = result.board]

\* this.board = result.board; this.moveHistory.push({col, row, player})
Place(gs, col, result) ==
    [gs EXCEPT !.board = result.board,
               !.moveHistory = Append(@, [col |-> col, row |-> result.row,
                                          player |-> gs.currentPlayer])]

\* the win branch without this.gameOver = true
WinOutcomeNotOver(gs, result, winResult) ==
    [state |-> [gs EXCEPT !.winner = gs.currentPlayer, !.winningCells = winResult.cells],
     ret |-> [success |-> TRUE, row |-> result.row, winner |-> gs.currentPlayer,
              winningCells |-> winResult.cells, isDraw |-> FALSE]]

\* the win branch without this.winningCells = winResult.cells
WinOutcomeNoCells(gs, result, winResult) ==
    [state |-> [gs EXCEPT !.winner = gs.currentPlayer, !.gameOver = TRUE],
     ret |-> [success |-> TRUE, row |-> result.row, winner |-> gs.currentPlayer,
              winningCells |-> gs.winningCells, isDraw |-> FALSE]]

\* the win branch followed by the switch of player
WinOutcomeFlips(gs, result, winResult) ==
    LET s == [gs EXCEPT !.winner = gs.currentPlayer, !.winningCells = winResult.cells,
                        !.gameOver = TRUE,
                        !.currentPlayer = getOtherPlayer(gs.currentPlayer)]
    IN  [state |-> s,
         ret |-> [success |-> TRUE, row |-> result.row, winner |-> s.winner,
                  winningCells |-> s.winningCells, isDraw |-> FALSE]]

\* the win branch of makeMove
WinOutcome(gs, result, winResult) ==
    LET s == [gs EXCEPT !.winner = gs.currentPlayer, !.winningCells = winResult.cells,
                        !.gameOver = TRUE]
    IN  [state |-> s,
         ret |-> [success |-> TRUE, row |-> result.row, winner |-> s.winner,
                  winningCells |-> s.winningCells, isDraw |-> FALSE]]

\* the draw branch of makeMove
DrawOutcome(gs, result) ==
    [state |-> [gs EXCEPT !.isDraw = TRUE, !.gameOver = TRUE],
     ret |-> [success |-> TRUE, row |-> result.row, winner |-> null,
              winningCells |-> << >>, isDraw |-> TRUE]]

\* the last branch of makeMove: switch player
ContinueOutcome(gs, result) ==
    [state |-> [gs EXCEPT !.currentPlayer = getOtherPlayer(gs.currentPlayer)],
     ret |-> [success |-> TRUE, row |-> result.row, winner |-> null,
              winningCells |-> << >>, isDraw |-> FALSE]]

\* makeMove(col) on the GameState gs: the GameState afterwards and the value returned
makeMove(gs, col) ==
    IF IsOver(gs) THEN [state |-> gs, ret |-> Rejected]
    ELSE LET result == dropPiece(gs.board, col, gs.currentPlayer)
         IN  IF DropFailed(result) THEN [state |-> gs, ret |-> Rejected]
             ELSE LET placed == Place(gs, col, result)
                      winResult == checkWin(placed.board, placed.currentPlayer)
                  IN  IF winResult.won THEN WinOutcome(placed, result, winResult)
                      ELSE IF isBoardFull(placed.board) THEN DrawOutcome(placed, result)
                      ELSE ContinueOutcome(placed, result)

-----------------------------------------------------------------------------
(* The GameState object driven by its callers *)

\* column arguments tried: every column and one index outside the board on each side
Columns == -1 .. COLS

\* Starting positions: each is the game reached from a new GameState by playing
\* the listed columns in order.
\*   1  a new game
\*   2  column 3 one piece short of full
\*   3  red threatens the bottom row at columns 3..6
\*   4  yellow threatens the diagonal (2,3)..(5,6); red threatens the bottom row
\*   5  yellow threatens column 6 and the diagonal (5,3)..(2,6) with one move
\*   6  three cells left, both a draw and a win on the last cell are possible
\*   7  the same game two moves later: one cell left, filling it is a draw
Openings ==
    { << >>,
      << 3, 3, 3, 3, 3 >>,
      << 6, 6, 5, 5, 4, 4 >>,
      << 5, 6, 4, 5, 3, 3, 4, 4, 3 >>,
      << 5, 6, 1, 3, 2, 6, 3, 6, 5, 5, 4, 4, 5 >>,
      << 0, 3, 2, 4, 6, 2, 0, 6, 6, 4, 3, 4, 5, 0, 5, 2, 5, 0, 6, 1, 3, 2, 0, 6,
         1, 3, 2, 6, 4, 5, 0, 2, 1, 5, 1, 4, 3, 1, 3 >>,
      << 0, 3, 2, 4, 6, 2, 0, 6, 6, 4, 3, 4, 5, 0, 5, 2, 5, 0, 6, 1, 3, 2, 0, 6,
         1, 3, 2, 6, 4, 5, 0, 2, 1, 5, 1, 4, 3, 1, 3, 1, 5 >> }

\* makeMove(c) on gs for each column of the list, in order
RECURSIVE ReplayFrom(_, _)
ReplayFrom(gs, cols) ==
    IF cols = << >> THEN gs
    ELSE LET s == makeMove(gs, Head(cols)).state
         IN  IF s.gameOver \in BOOLEAN THEN ReplayFrom(s, Tail(cols)) ELSE s

\* new GameState(), then the moves of the list
Replay(cols) == ReplayFrom(Fresh, cols)

EngineIdle ==
    /\ inBoard = createBoard
    /\ bop = "none"
    /\ bcol = 0
    /\ bplayer = PLAYER_RED
    /\ dropRet = [success |-> FALSE, row |-> -1, board |-> createBoard]
    /\ winRet = [won |-> FALSE, cells |-> << >>]

Init ==
    /\ \E o \in Openings :
          LET gs == Replay(o)
          IN  /\ board = gs.board
              /\ currentPlayer = gs.currentPlayer
              /\ winner = gs.winner
              /\ winningCells = gs.winningCells
              /\ isDraw = gs.isDraw
              /\ moveHistory = gs.moveHistory
              /\ gameOver = gs.gameOver
    /\ op = "new"
    /\ arg = 0
    /\ ret = Rejected
    /\ moved = 0
    /\ wasOver = FALSE
    /\ EngineIdle
    /\ CopyIdle
    /\ ServerIdle
    /\ ClientIdle

\* gameState.makeMove(col)
MakeMove(col) ==
    /\ ~ (moved >= MaxMoves /\ ~ gameOver /\ dropPiece(board, col, currentPlayer).success)
    /\ \E r \in {makeMove(This, col)} :
        /\ board' = r.state.board
        /\ currentPlayer' = r.state.currentPlayer
        /\ winner' = r.state.winner
        /\ winningCells' = r.state.winningCells
        /\ isDraw' = r.state.isDraw
        /\ moveHistory' = r.state.moveHistory
        /\ gameOver' = r.state.gameOver
        /\ op' = "makeMove"
        /\ arg' = col
        /\ ret' = r.ret
        /\ moved' = IF r.ret.success THEN moved + 1 ELSE moved
        /\ wasOver' = gameOver
        /\ UNCHANGED << engineVars, copyVars, serverVars, clientVars >>

\* reset() without this.gameOver = false
ResetKeepsOver ==
    /\ board' = createBoard
    /\ currentPlayer' = PLAYER_RED
    /\ winner' = null
    /\ winningCells' = << >>
    /\ isDraw' = FALSE
    /\ moveHistory' = << >>
    /\ gameOver' = gameOver
    /\ op' = "reset"
    /\ arg' = 0
    /\ ret' = Rejected
    /\ moved' = 0
    /\ wasOver' = gameOver
    /\ UNCHANGED << engineVars, copyVars, serverVars, clientVars >>

\* gameState.reset()
Reset ==
    /\ board' = createBoard
    /\ currentPlayer' = PLAYER_RED
    /\ winner' = null
    /\ winningCells' = << >>
    /\ isDraw' = FALSE
    /\ moveHistory' = << >>
    /\ gameOver' = FALSE
    /\ op' = "reset"
    /\ arg' = 0
    /\ ret' = Rejected
    /\ moved' = 0
    /\ wasOver' = gameOver
    /\ UNCHANGED << engineVars, copyVars, serverVars, clientVars >>

Next ==
    \/ \E col \in Columns : MakeMove(col)
    \/ Reset

Spec == Init /\ [][Next]_vars

-----------------------------------------------------------------------------
(* The board engine called directly on boards of any shape *)

\* the start cells and directions of the 69 lines of four cells on the board
Segments ==
    { s \in [row : RowIdx, col : ColIdx, dr : {-1, 0, 1}, dc : {0, 1}] :
        /\ << s.dr, s.dc >> \in { << 0, 1 >>, << 1, 0 >>, << -1, 1 >>, << 1, 1 >> }
        /\ s.row + 3 * s.dr \in RowIdx
        /\ s.col + 3 * s.dc \in ColIdx }

SegCells(s) == { Cell(s.row + i * s.dr, s.col + i * s.dc) : i \in 0 .. 3 }

\* board b with the four cells of segment s set to player
PutLine(b, s, player) ==
    [r \in RowIdx |-> [c \in ColIdx |->
        IF Cell(r, c) \in SegCells(s) THEN player ELSE b[r][c]]]

\* board b with the k-th cell (1..4) of segment s set to v; k = 0 changes nothing
Punch(b, s, k, v) ==
    IF k = 0 THEN b
    ELSE [b EXCEPT ![s.row + (k - 1) * s.dr][s.col + (k - 1) * s.dc] = v]

\* one line of a player with one of its cells emptied or taken by the other player
HoleBoards(p) ==
    { Punch(PutLine(createBoard, s, p), s, k, v) :
        s \in Segments, k \in 0 .. 4, v \in {EMPTY} \cup Players }

\* two lines of the same player
TwoLineBoards(p) ==
    { PutLine(PutLine(createBoard, s1, p), s2, p) : s1 \in Segments, s2 \in Segments }

\* gravity-respecting boards: column c holds n pieces, every other column m,
\* colours chequered, p on the even cells
StackBoards(p) ==
    { [r \in RowIdx |-> [col \in ColIdx |->
          IF r >= ROWS - (IF col = c THEN n ELSE m)
          THEN (IF (r + col) % 2 = 0 THEN p ELSE getOtherPlayer(p)) ELSE EMPTY]] :
        c \in ColIdx, n \in 0 .. ROWS, m \in 0 .. ROWS }

InputBoards(p) == HoleBoards(p) \cup TwoLineBoards(p) \cup StackBoards(p)

GameIdle ==
    /\ board = createBoard
    /\ currentPlayer = PLAYER_RED
    /\ winner = null
    /\ winningCells = << >>
    /\ isDraw = FALSE
    /\ moveHistory = << >>
    /\ gameOver = FALSE
    /\ op = "new"
    /\ arg = 0
    /\ ret = Rejected
    /\ moved = 0
    /\ wasOver = FALSE

InitEngine ==
    /\ \E p \in Players : inBoard \in InputBoards(p)
    /\ bop = "none"
    /\ bcol = 0
    /\ bplayer = PLAYER_RED
    /\ dropRet = [success |-> FALSE, row |-> -1, board |-> createBoard]
    /\ winRet = [won |-> FALSE, cells |-> << >>]
    /\ GameIdle
    /\ CopyIdle
    /\ ServerIdle
    /\ ClientIdle

\* dropPiece(inBoard, col, player); inBoard is the argument object after the call
CallDropPiece(col, player) ==
    /\ bop = "none"
    /\ \E r \in {dropPiece(inBoard, col, player)} :
        /\ dropRet' = [success |-> r.success, row |-> r.row, board |-> r.board]
        /\ inBoard' = r.input
    /\ bop' = "dropPiece"
    /\ bcol' = col
    /\ bplayer' = player
    /\ UNCHANGED << winRet, gameVars, copyVars, serverVars, clientVars >>

\* checkWin(inBoard, player)
CallCheckWin(player) ==
    /\ bop = "none"
    /\ winRet' = checkWin(inBoard, player)
    /\ bop' = "checkWin"
    /\ bplayer' = player
    /\ UNCHANGED << inBoard, bcol, dropRet, gameVars, copyVars, serverVars, clientVars >>

NextEngine ==
    \/ \E col \in Columns, player \in Players : CallDropPiece(col, player)
    \/ \E player \in Players : CallCheckWin(player)

SpecEngine == InitEngine /\ [][NextEngine]_vars

-----------------------------------------------------------------------------
(* Two GameState objects exchanging serialize()/deserialize() *)

\* successful moves and resets made on the two objects
MaxCopyMoves == 1

Objects == {"s", "t"}

\* columns played on the two objects: 3 wins or fills a column, 4 draws
CopyColumns == {3, 4}

\* the GameState o with its moveHistory array read from the heap
View(os, h, o) == [os[o] EXCEPT !.moveHistory = h[@]]

\* deserialize without this.winningCells = data.winningCells
deserializeNoCells(gs, data) ==
    [gs EXCEPT !.board = data.board,
               !.currentPlayer = data.currentPlayer,
               !.winner = data.winner,
               !.isDraw = data.isDraw,
               !.moveHistory = data.moveHistory,
               !.gameOver = data.gameOver]

\* serialize(): a new object holding the seven field values; board, winningCells
\* and moveHistory are the arrays of the GameState themselves
serialize(gs) ==
    [board |-> gs.board,
     currentPlayer |-> gs.currentPlayer,
     winner |-> gs.winner,
     winningCells |-> gs.winningCells,
     isDraw |-> gs.isDraw,
     moveHistory |-> gs.moveHistory,
     gameOver |-> gs.gameOver]

\* deserialize(data): seven assignments
deserialize(gs, data) ==
    [gs EXCEPT !.board = data.board,
               !.currentPlayer = data.currentPlayer,
               !.winner = data.winner,
               !.winningCells = data.winningCells,
               !.isDraw = data.isDraw,
               !.moveHistory = data.moveHistory,
               !.gameOver = data.gameOver]

\* two objects, each constructed and played to an opening; moveHistory fields
\* are addresses into hist
InitCopy ==
    /\ \E a \in Openings, b \in Openings :
         \E ga \in {Replay(a)}, gb \in {Replay(b)} :
            /\ hist = << ga.moveHistory, gb.moveHistory >>
            /\ objs = [o \in Objects |->
                         IF o = "s" THEN [ga EXCEPT !.moveHistory = 1]
                                    ELSE [gb EXCEPT !.moveHistory = 2]]
    /\ snap = << >>
    /\ cop = "none"
    /\ cobj = "none"
    /\ cmoved = 0
    /\ GameIdle
    /\ EngineIdle
    /\ ServerIdle
    /\ ClientIdle

\* o.makeMove(col): push writes into the array o.moveHistory refers to
CopyMakeMove(o, col) ==
    /\ ~ (cmoved >= MaxCopyMoves /\ ~ objs[o].gameOver
            /\ dropPiece(objs[o].board, col, objs[o].currentPlayer).success)
    /\ \E r \in {makeMove(View(objs, hist, o), col)} :
         /\ hist' = [hist EXCEPT ![objs[o].moveHistory] = r.state.moveHistory]
         /\ objs' = [objs EXCEPT ![o] =
                        [r.state EXCEPT !.moveHistory = objs[o].moveHistory]]
         /\ cmoved' = IF r.ret.success THEN cmoved + 1 ELSE cmoved
    /\ cop' = "makeMove"
    /\ cobj' = o
    /\ UNCHANGED << snap, gameVars, engineVars, serverVars, clientVars >>

\* o.reset(): every field gets a new value, moveHistory a new empty array
CopyReset(o) ==
    /\ cmoved < MaxCopyMoves
    /\ hist' = Append(hist, << >>)
    /\ objs' = [objs EXCEPT ![o] = [Fresh EXCEPT !.moveHistory = Len(hist) + 1]]
    /\ cmoved' = cmoved + 1
    /\ cop' = "reset"
    /\ cobj' = o
    /\ UNCHANGED << snap, gameVars, engineVars, serverVars, clientVars >>

\* snap = o.serialize()
CallSerialize(o) ==
    /\ snap' = serialize(objs[o])
    /\ cop' = "serialize"
    /\ cobj' = o
    /\ UNCHANGED << objs, hist, cmoved, gameVars, engineVars, serverVars, clientVars >>

\* o.deserialize(snap)
CallDeserialize(o) ==
    /\ snap # << >>
    /\ objs' = [objs EXCEPT ![o] = deserialize(objs[o], snap)]
    /\ cop' = "deserialize"
    /\ cobj' = o
    /\ UNCHANGED << hist, snap, cmoved, gameVars, engineVars, serverVars, clientVars >>

NextCopy ==
    \/ \E o \in Objects, col \in CopyColumns : CopyMakeMove(o, col)
    \/ \E o \in Objects : CopyReset(o)
    \/ \E o \in Objects : CallSerialize(o)
    \/ \E o \in Objects : CallDeserialize(o)

SpecCopy == InitCopy /\ [][NextCopy]_vars

-----------------------------------------------------------------------------
(* The relay server (vite.config.js) and the NetworkManager fields it sets *)

\* messages handled by the server after the starting situation
MaxSteps == 3
\* Date.now() runs from 0 to MaxTime, counted in hours
MaxTime == 2
\* 60 * 60 * 1000 ms
HOUR == 1

\* socket ids
Conns == {"a", "b", "c"}
\* the codes generateGameCode can return
Codes == {"X", "Y"}
\* null where a game code is expected
nullCode == "null"
\* what a game:move message carries: a first move, and a payload no game produces
Payloads == {[column |-> 3, row |-> 5, gameState |-> 1],
             [column |-> 9, row |-> -1, gameState |-> 2]}

Range(f) == {f[i] : i \in DOMAIN f}

\* an event on its way to socket `to`
Event(ev, to, code, data) == [ev |-> ev, to |-> to, code |-> code, data |-> data]

\* socket.to(code): every socket in the room except the sender
Others(sb, conn, code) == {c \in DOMAIN sb \ {conn} : code \in sb[c]}

\* io.to(code): every socket in the room
Everyone(sb, code) == {c \in DOMAIN sb : code \in sb[c]}

\* generateGameCode without the games.has(code) test
generateGameCodeAny(g) == Codes

\* the codes the do-while loop of generateGameCode can end with
generateGameCode(g) == Codes \ DOMAIN g

\* createGame(hostId), with the code generateGameCode returned and Date.now()
createGame(g, hostId, code, t) ==
    [k \in DOMAIN g \cup {code} |->
        IF k = code
        THEN [code |-> code, hostId |-> hostId, players |-> << hostId >>,
              gameState |-> null, currentPlayer |-> 1, createdAt |-> t,
              rematchRequests |-> {}]
        ELSE g[k]]

\* games.has(code)
hasGame(g, code) == code \in DOMAIN g

getGame(g, code) == g[code]

deleteGame(g, code) == [k \in DOMAIN g \ {code} |-> g[k]]

\* cleanupOldGames with createdAt <= oneHourAgo
cleanupOldGamesInclusive(g, t) ==
    [k \in {c \in DOMAIN g : ~ (g[c].createdAt <= t - HOUR)} |-> g[k]]

\* cleanupOldGames() at Date.now() = t
cleanupOldGames(g, t) ==
    [k \in {c \in DOMAIN g : ~ (g[c].createdAt < t - HOUR)} |-> g[k]]

\* the full check of game:join, off by one
JoinFullAtThree(g, code) == Len(getGame(g, code).players) >= 3

\* if (game.players.length >= 2)
JoinFull(g, code) == Len(getGame(g, code).players) >= 2

\* the callback argument of game:join
JoinReply(g, code) ==
    IF ~ hasGame(g, code) THEN "Game not found"
    ELSE IF JoinFull(g, code) THEN "Game is full"
    ELSE "success"

\* leaveGame without the delete of an empty game
leaveGameKeepsEmpty(g, sb, conn, code) ==
    IF ~ hasGame(g, code)
    THEN [games |-> g, subs |-> sb, emitted |-> {}]
    ELSE [games |-> [g EXCEPT ![code].players = SelectSeq(@, LAMBDA id : id # conn)],
          subs |-> [sb EXCEPT ![conn] = @ \ {code}],
          emitted |-> {Event("game:opponent-left", c, code, [playerId |-> conn]) :
                          c \in Others(sb, conn, code)}]

\* leaveGame removing the last player instead of socket.id
leaveGamePop(g, sb, conn, code) ==
    IF ~ hasGame(g, code)
    THEN [games |-> g, subs |-> sb, emitted |-> {}]
    ELSE [games |-> IF Len(g[code].players) = 1
                    THEN deleteGame(g, code)
                    ELSE [g EXCEPT ![code].players = SubSeq(@, 1, Len(@) - 1)],
          subs |-> [sb EXCEPT ![conn] = @ \ {code}],
          emitted |-> {Event("game:opponent-left", c, code, [playerId |-> conn]) :
                          c \in Others(sb, conn, code)}]

\* leaveGame(socket, gameCode): the registry, the socket.io rooms and the events after it
leaveGame(g, sb, conn, code) ==
    IF ~ hasGame(g, code)
    THEN [games |-> g, subs |-> sb, emitted |-> {}]
    ELSE LET players == SelectSeq(g[code].players, LAMBDA id : id # conn)
         IN  [games |-> IF Len(players) = 0
                        THEN deleteGame(g, code)
                        ELSE [g EXCEPT ![code].players = players],
              subs |-> [sb EXCEPT ![conn] = @ \ {code}],
              emitted |-> {Event("game:opponent-left", c, code, [playerId |-> conn]) :
                              c \in Others(sb, conn, code)}]

\* no game:create handler is inside generateGameCode
NotGenerating == [conn |-> "none", code |-> nullCode]

\* the server is up, three sockets are connected, no message was handled yet
ServerStarted ==
    /\ games = << >>
    /\ currentGameCode = [c \in Conns |-> nullCode]
    /\ subs = [c \in Conns |-> {}]
    /\ gameCode = [c \in Conns |-> nullCode]
    /\ playerNumber = [c \in Conns |-> null]
    /\ sop = [name |-> "none", conn |-> "none", code |-> "none"]
    /\ reply = "none"
    /\ emitted = {}

\* the same server after game:create from "a" returned "X" and game:join from "b"
\* for "X" succeeded
ServerPaired ==
    /\ games = [createGame(<< >>, "a", "X", 0) EXCEPT !["X"].players = Append(@, "b")]
    /\ currentGameCode = [c \in Conns |-> IF c \in {"a", "b"} THEN "X" ELSE nullCode]
    /\ subs = [c \in Conns |-> IF c \in {"a", "b"} THEN {"X"} ELSE {}]
    /\ gameCode = [c \in Conns |-> IF c \in {"a", "b"} THEN "X" ELSE nullCode]
    /\ playerNumber = [c \in Conns |-> IF c = "a" THEN 1 ELSE IF c = "b" THEN 2 ELSE null]
    /\ sop = [name |-> "join", conn |-> "b", code |-> "X"]
    /\ reply = "success"
    /\ emitted = {Event("game:joined", "b", "X", [playerNumber |-> 2]),
                  Event("game:opponent-joined", "a", "X", [playerId |-> "b"])}

\* steps counts the messages handled since the starting situation
InitServer ==
    /\ ServerStarted \/ ServerPaired
    /\ connected = Conns
    /\ now = 0
    /\ steps = 0
    /\ gen = NotGenerating
    /\ GameIdle
    /\ EngineIdle
    /\ CopyIdle
    /\ ClientIdle

HandledBy(name, conn, code) ==
    /\ sop' = [name |-> name, conn |-> conn, code |-> code]
    /\ steps' = steps + 1
    /\ UNCHANGED << connected, now, gameVars, engineVars, copyVars, clientVars >>

Handled(name, conn, code) ==
    /\ HandledBy(name, conn, code)
    /\ UNCHANGED gen

\* what game:create does once generateGameCode has returned code
CreateRoom(conn, code) ==
    /\ steps < MaxSteps
    /\ conn \in connected
    /\ code \in generateGameCode(games)
    /\ games' = createGame(games, conn, code, now)
    /\ currentGameCode' = [currentGameCode EXCEPT ![conn] = code]
    /\ subs' = [subs EXCEPT ![conn] = @ \cup {code}]
    /\ reply' = "success"
    /\ emitted' = {Event("game:created", conn, code, [playerNumber |-> 1])}
    /\ gameCode' = [gameCode EXCEPT ![conn] = code]
    /\ playerNumber' = [playerNumber EXCEPT ![conn] = 1]
    /\ HandledBy("create", conn, code)

\* game:create; the creator's NetworkManager handles game:created
Create(conn, code) ==
    /\ CreateRoom(conn, code)
    /\ UNCHANGED gen

\* game:join; on success the joiner's NetworkManager handles game:joined
Join(conn, code) ==
    /\ steps < MaxSteps
    /\ conn \in connected
    /\ reply' = JoinReply(games, code)
    /\ IF JoinReply(games, code) = "success"
       THEN /\ games' = [games EXCEPT ![code].players = Append(@, conn)]
            /\ currentGameCode' = [currentGameCode EXCEPT ![conn] = code]
            /\ subs' = [subs EXCEPT ![conn] = @ \cup {code}]
            /\ emitted' = {Event("game:joined", conn, code, [playerNumber |-> 2])}
                          \cup {Event("game:opponent-joined", c, code, [playerId |-> conn]) :
                                   c \in Others(subs, conn, code)}
            /\ gameCode' = [gameCode EXCEPT ![conn] = code]
            /\ playerNumber' = [playerNumber EXCEPT ![conn] = 2]
       ELSE /\ emitted' = {}
            /\ UNCHANGED << games, currentGameCode, subs, gameCode, playerNumber >>
    /\ Handled("join", conn, code)

\* game:leave; NetworkManager.leaveGame sends its own gameCode and forgets it
Leave(conn, code) ==
    /\ steps < MaxSteps
    /\ conn \in connected
    /\ \E r \in {leaveGame(games, subs, conn, code)} :
         /\ games' = r.games
         /\ subs' = r.subs
         /\ emitted' = r.emitted
    /\ IF code = gameCode[conn]
       THEN /\ gameCode' = [gameCode EXCEPT ![conn] = nullCode]
            /\ playerNumber' = [playerNumber EXCEPT ![conn] = null]
       ELSE UNCHANGED << gameCode, playerNumber >>
    /\ reply' = "none"
    /\ UNCHANGED currentGameCode
    /\ Handled("leave", conn, code)

\* game:rematch firing on the first request
BothRequestedAtOne(requests) == Cardinality(requests) >= 1

\* if (game.rematchRequests.size >= 2)
BothRequested(requests) == Cardinality(requests) >= 2

\* game:move sent with io.to(gameCode) instead of socket.to(gameCode)
MoveEcho(conn, code, data) ==
    /\ steps < MaxSteps
    /\ conn \in connected
    /\ IF hasGame(games, code)
       THEN /\ games' = [games EXCEPT ![code].gameState = data.gameState]
            /\ emitted' = {Event("game:move", c, code, data) : c \in Everyone(subs, code)}
       ELSE /\ emitted' = {}
            /\ UNCHANGED games
    /\ reply' = "none"
    /\ UNCHANGED << currentGameCode, subs, gameCode, playerNumber >>
    /\ Handled("move", conn, code)

\* game:move
Move(conn, code, data) ==
    /\ steps < MaxSteps
    /\ conn \in connected
    /\ IF hasGame(games, code)
       THEN /\ games' = [games EXCEPT ![code].gameState = data.gameState]
            /\ emitted' = {Event("game:move", c, code, data) : c \in Others(subs, conn, code)}
       ELSE /\ emitted' = {}
            /\ UNCHANGED games
    /\ reply' = "none"
    /\ UNCHANGED << currentGameCode, subs, gameCode, playerNumber >>
    /\ Handled("move", conn, code)

\* game:rematch
Rematch(conn, code) ==
    /\ steps < MaxSteps
    /\ conn \in connected
    /\ IF hasGame(games, code)
       THEN IF BothRequested(games[code].rematchRequests \cup {conn})
            THEN /\ games' = [games EXCEPT ![code].gameState = null,
                                           ![code].currentPlayer = 1,
                                           ![code].rematchRequests = {}]
                 /\ emitted' = {Event("game:rematch", c, code, [gameState |-> null]) :
                                  c \in Everyone(subs, code)}
            ELSE /\ games' = [games EXCEPT ![code].rematchRequests = @ \cup {conn}]
                 /\ emitted' = {Event("game:rematch-requested", c, code, [playerId |-> conn]) :
                                  c \in Others(subs, conn, code)}
       ELSE /\ emitted' = {}
            /\ UNCHANGED games
    /\ reply' = "none"
    /\ UNCHANGED << currentGameCode, subs, gameCode, playerNumber >>
    /\ Handled("rematch", conn, code)

\* disconnect: leaveGame for currentGameCode only; socket.io takes the socket out of
\* every room; NetworkManager.disconnect forgets gameCode and playerNumber
Disconnect(conn) ==
    /\ steps < MaxSteps
    /\ conn \in connected
    /\ connected' = connected \ {conn}
    /\ \E r \in {IF currentGameCode[conn] # nullCode
                 THEN leaveGame(games, subs, conn, currentGameCode[conn])
                 ELSE [games |-> games, subs |-> subs, emitted |-> {}]} :
         /\ games' = r.games
         /\ subs' = [r.subs EXCEPT ![conn] = {}]
         /\ emitted' = r.emitted
    /\ gameCode' = [gameCode EXCEPT ![conn] = nullCode]
    /\ playerNumber' = [playerNumber EXCEPT ![conn] = null]
    /\ reply' = "none"
    /\ sop' = [name |-> "disconnect", conn |-> conn, code |-> currentGameCode[conn]]
    /\ steps' = steps + 1
    /\ UNCHANGED << currentGameCode, now, gen, gameVars, engineVars, copyVars, clientVars >>

\* the setInterval callback
Sweep ==
    /\ games' = cleanupOldGames(games, now)
    /\ sop' = [name |-> "sweep", conn |-> "none", code |-> "none"]
    /\ reply' = "none"
    /\ emitted' = {}
    /\ UNCHANGED << currentGameCode, connected, subs, gameCode, playerNumber, now, steps, gen,
                    gameVars, engineVars, copyVars, clientVars >>

\* an hour passes
Tick ==
    /\ now < MaxTime
    /\ now' = now + 1
    /\ sop' = [name |-> "tick", conn |-> "none", code |-> "none"]
    /\ reply' = "none"
    /\ emitted' = {}
    /\ UNCHANGED << games, currentGameCode, connected, subs, gameCode, playerNumber, steps, gen,
                    gameVars, engineVars, copyVars, clientVars >>

NextServer ==
    \/ \E conn \in Conns, code \in Codes : Create(conn, code)
    \/ \E conn \in Conns, code \in Codes : Join(conn, code)
    \/ \E conn \in Conns, code \in Codes : Leave(conn, code)
    \/ \E conn \in Conns, code \in Codes, data \in Payloads : Move(conn, code, data)
    \/ \E conn \in Conns, code \in Codes : Rematch(conn, code)
    \/ \E conn \in Conns : Disconnect(conn)
    \/ Sweep
    \/ Tick

SpecServer == InitServer /\ [][NextServer]_vars

-----------------------------------------------------------------------------
(* game:create with the do-while loop of generateGameCode step by step *)

\* a game:create handler is inside generateGameCode
Generating == gen.conn # "none"

\* game:create arrives and enters generateGameCode
CreateStart(conn) ==
    /\ ~ Generating
    /\ steps < MaxSteps
    /\ conn \in connected
    /\ gen' = [conn |-> conn, code |-> nullCode]
    /\ UNCHANGED << games, currentGameCode, connected, subs, gameCode, playerNumber, now,
                    sop, reply, emitted, steps, gameVars, engineVars, copyVars, clientVars >>

\* one pass of the loop body gives a code that games has: the loop goes round again
GenerateCollide(code) ==
    /\ Generating
    /\ hasGame(games, code)
    /\ gen' = [gen EXCEPT !.code = code]
    /\ UNCHANGED << games, currentGameCode, connected, subs, gameCode, playerNumber, now,
                    sop, reply, emitted, steps, gameVars, engineVars, copyVars, clientVars >>

\* one pass of the loop body gives a code that games does not have: the loop ends
\* and the handler goes on
GenerateDone(code) ==
    /\ Generating
    /\ CreateRoom(gen.conn, code)
    /\ gen' = NotGenerating

\* the handlers that free codes; none runs while a handler is inside the loop
BetweenCreates ==
    /\ ~ Generating
    /\ \/ \E conn \in Conns, code \in Codes : Leave(conn, code)
       \/ Sweep
       \/ Tick

NextCreate ==
    \/ \E conn \in Conns : CreateStart(conn)
    \/ \E code \in Codes : GenerateCollide(code)
    \/ \E code \in Codes : GenerateDone(code)
    \/ BetweenCreates

\* the loop keeps running, and its random code is one of the free codes sooner or
\* later when there is one
SpecCreate ==
    /\ InitServer
    /\ [][NextCreate]_vars
    /\ WF_vars(\E code \in Codes : GenerateCollide(code))
    /\ WF_vars(\E code \in Codes : GenerateDone(code))

-----------------------------------------------------------------------------
(* Two client apps (main.js, NetworkManager) playing in one room over the server *)

\* things the two users do together: successful moves, rematch requests, leaves
\* and joins
MaxInputs == 3

\* the clients of room "X": "a" created it, "b" joined it
Apps == {"a", "b"}

\* the columns the players drop into, and one index outside the board
AppColumns == {3, 4, COLS}

\* the games the two clients have played when the observation starts:
\* a new game; column 3 one piece short of full, yellow to move; red one move from
\* four in the bottom row
ClientOpenings == { << >>, << 3, 3, 3, 3, 3 >>, << 6, 6, 5, 5, 4, 4 >> }

\* isMyTurn answering true for every player
isMyTurnAlways(number, player) == TRUE

\* NetworkManager.isMyTurn
isMyTurn(number, player) == number = player

\* gameMode is 'online' or 'join'
Online(app) == app.gameMode \in {"online", "join"}

\* resetGame(): gameState.reset() and isProcessingMove = false
resetGame(app) == [app EXCEPT !.gameState = Fresh, !.isProcessingMove = FALSE]

\* startOnlineGame(): resetGame() and showScreen('game')
startOnlineGame(app) == [resetGame(app) EXCEPT !.screen = "game"]

\* an async handler waiting in an await: which handler, its col and row, and the
\* GameState as its makeMove left it
Waiting(kind, col, row, made) == [kind |-> kind, col |-> col, row |-> row, made |-> made]

\* result.winner or result.isDraw of the makeMove call of handler k
Ended(k) == k.made.winner # null \/ k.made.isDraw

\* the events of one handler added to the inbox of each socket they go to
Deliveries(inb, events) ==
    [c \in DOMAIN inb |->
        IF \E e \in events : e.to = c
        THEN Append(inb[c], CHOOSE e \in events : e.to = c)
        ELSE inb[c]]

\* "a" has created room "X", "b" has joined it, both apps have handled the events of
\* that (startOnlineGame) and have played the moves of an opening
InitClient ==
    /\ ServerPaired
    /\ connected = Conns
    /\ now = 0
    /\ steps = 0
    /\ gen = NotGenerating
    /\ \E o \in ClientOpenings :
         apps = [c \in Apps |->
                   [gameState |-> Replay(o), isProcessingMove |-> FALSE,
                    gameMode |-> IF c = "a" THEN "online" ELSE "join",
                    screen |-> "game", pending |-> {}]]
    /\ toServer = [c \in Apps |-> << >>]
    /\ inbox = [c \in Apps |-> << >>]
    /\ aop = [name |-> "none", client |-> "none"]
    /\ taps = 0
    /\ asked = 0
    /\ trips = 0
    /\ GameIdle
    /\ EngineIdle
    /\ CopyIdle

\* what the two users have done so far
Inputs == taps + asked + trips

\* the server variables a client step leaves alone
ServerUntouched ==
    UNCHANGED << games, currentGameCode, connected, subs, now, sop,
                 reply, emitted, steps, gen, gameVars, engineVars, copyVars >>

\* handleMove(col) going on to the animation and sendMove whether or not makeMove
\* accepted the column
handleMoveSendsFirst(app, number, col) ==
    IF app.isProcessingMove \/ app.gameState.gameOver
    THEN [app |-> app, did |-> "ignored"]
    ELSE LET r == makeMove(app.gameState, col)
         IN  [app |-> [app EXCEPT
                         !.gameState = r.state,
                         !.isProcessingMove = TRUE,
                         !.pending = @ \cup {Waiting("handleMove", col, r.ret.row,
                                                     r.state)}],
              did |-> IF r.ret.success THEN "moved" ELSE "rejected"]

\* handleMove(col) up to await animateDrop: the app after it and what it did
handleMove(app, number, col) ==
    IF app.isProcessingMove \/ app.gameState.gameOver
    THEN [app |-> app, did |-> "ignored"]
    ELSE IF Online(app) /\ ~ isMyTurn(number, app.gameState.currentPlayer)
    THEN [app |-> app, did |-> "not my turn"]
    ELSE LET r == makeMove(app.gameState, col)
         IN  IF ~ r.ret.success
             THEN [app |-> app, did |-> "rejected"]
             ELSE [app |-> [app EXCEPT
                              !.gameState = r.state,
                              !.isProcessingMove = TRUE,
                              !.pending = @ \cup {Waiting("handleMove", col, r.ret.row,
                                                          r.state)}],
                   did |-> "moved"]

\* a tap on column col of the board of client c, which is on the game screen
HandleMove(c, col) ==
    /\ Inputs < MaxInputs
    /\ apps[c].screen = "game"
    /\ \E r \in {handleMove(apps[c], playerNumber[c], col)} :
         /\ apps' = [apps EXCEPT ![c] = r.app]
         /\ taps' = IF r.did = "moved" THEN taps + 1 ELSE taps
         /\ aop' = [name |-> "handleMove", client |-> c, col |-> col, did |-> r.did]
    /\ UNCHANGED << toServer, inbox, asked, trips, gameCode, playerNumber >>
    /\ ServerUntouched

\* sendMove(col, row, this.gameState.serialize()): the game:move message, with the
\* GameState read when the message is made
MoveMessage(app, code, k) ==
    [ev |-> "game:move", code |-> code,
     data |-> [column |-> k.col, row |-> k.row, gameState |-> serialize(app.gameState)]]

\* a handler after await animateDrop: handleWin / handleDraw wait again when the
\* move ended the game, otherwise isProcessingMove = false
Resume(app, k) ==
    IF Ended(k)
    THEN [app EXCEPT !.pending = (@ \ {k}) \cup {Waiting("handleResult", k.col, k.row, k.made)}]
    ELSE [app EXCEPT !.pending = @ \ {k}, !.isProcessingMove = FALSE]

\* handleMove after await animateDrop: sendMove(col, row, gameState.serialize()),
\* then the end of the handler
AfterDrop(c, k) ==
    /\ k \in apps[c].pending
    /\ k.kind = "handleMove"
    /\ apps' = [apps EXCEPT ![c] = Resume(@, k)]
    /\ IF Online(apps[c]) /\ gameCode[c] # nullCode
       THEN toServer' = [toServer EXCEPT ![c] = Append(@, MoveMessage(apps[c], gameCode[c], k))]
       ELSE UNCHANGED toServer
    /\ aop' = [name |-> "sendMove", client |-> c, waited |-> k]
    /\ UNCHANGED << inbox, taps, asked, trips, gameCode, playerNumber >>
    /\ ServerUntouched

\* handleOpponentMove after await animateDrop
AfterOpponentDrop(c, k) ==
    /\ k \in apps[c].pending
    /\ k.kind = "handleOpponentMove"
    /\ apps' = [apps EXCEPT ![c] = Resume(@, k)]
    /\ aop' = [name |-> "opponentMoveDone", client |-> c, waited |-> k]
    /\ UNCHANGED << toServer, inbox, taps, asked, trips, gameCode, playerNumber >>
    /\ ServerUntouched

\* after await handleWin / await handleDraw: isProcessingMove = false
AfterResult(c, k) ==
    /\ k \in apps[c].pending
    /\ k.kind = "handleResult"
    /\ apps' = [apps EXCEPT ![c].pending = @ \ {k}, ![c].isProcessingMove = FALSE]
    /\ aop' = [name |-> "resultShown", client |-> c, waited |-> k]
    /\ UNCHANGED << toServer, inbox, taps, asked, trips, gameCode, playerNumber >>
    /\ ServerUntouched

\* handleOpponentMove(data) up to await animateDrop
handleOpponentMove(app, data) ==
    IF app.isProcessingMove
    THEN app
    ELSE LET r == makeMove(app.gameState, data.column)
         IN  IF r.ret.success
             THEN [app EXCEPT !.gameState = r.state,
                              !.isProcessingMove = TRUE,
                              !.pending = @ \cup {Waiting("handleOpponentMove", data.column,
                                                          data.row, r.state)}]
             ELSE [app EXCEPT !.isProcessingMove = FALSE]

\* the client's socket gets the next event: game:move runs handleOpponentMove;
\* game:rematch runs handleRematch; game:joined sets gameCode and playerNumber and,
\* as game:opponent-joined, runs startOnlineGame; game:opponent-left shows a toast;
\* game:rematch-requested has no listener
Receive(c) ==
    /\ inbox[c] # << >>
    /\ inbox' = [inbox EXCEPT ![c] = Tail(@)]
    /\ \E e \in {Head(inbox[c])} :
         /\ apps' = [apps EXCEPT ![c] =
                       IF e.ev = "game:move" THEN handleOpponentMove(@, e.data)
                       ELSE IF e.ev = "game:rematch" THEN resetGame(@)
                       ELSE IF e.ev \in {"game:joined", "game:opponent-joined"}
                       THEN startOnlineGame(@)
                       ELSE @]
         /\ IF e.ev = "game:joined"
            THEN /\ gameCode' = [gameCode EXCEPT ![c] = e.code]
                 /\ playerNumber' = [playerNumber EXCEPT ![c] = e.data.playerNumber]
            ELSE UNCHANGED << gameCode, playerNumber >>
         /\ aop' = [name |-> "receive", client |-> c, event |-> e]
    /\ UNCHANGED << toServer, taps, asked, trips >>
    /\ ServerUntouched

\* the New Game button: requestRematch() -> NetworkManager.requestRematch()
RequestRematch(c) ==
    /\ Inputs < MaxInputs
    /\ apps[c].screen = "game"
    /\ gameCode[c] # nullCode
    /\ toServer' = [toServer EXCEPT ![c] =
                       Append(@, [ev |-> "game:rematch", code |-> gameCode[c],
                                  data |-> [gameState |-> null]])]
    /\ asked' = asked + 1
    /\ aop' = [name |-> "requestRematch", client |-> c]
    /\ UNCHANGED << apps, inbox, taps, trips, gameCode, playerNumber >>
    /\ ServerUntouched

\* the Leave button of the game screen: leaveGame() -> NetworkManager.leaveGame(),
\* gameMode = null, showScreen('menu')
LeaveGame(c) ==
    /\ Inputs < MaxInputs
    /\ apps[c].screen = "game"
    /\ IF gameCode[c] # nullCode
       THEN toServer' = [toServer EXCEPT ![c] =
                           Append(@, [ev |-> "game:leave", code |-> gameCode[c],
                                      data |-> [gameState |-> null]])]
       ELSE UNCHANGED toServer
    /\ gameCode' = [gameCode EXCEPT ![c] = nullCode]
    /\ playerNumber' = [playerNumber EXCEPT ![c] = null]
    /\ apps' = [apps EXCEPT ![c].gameMode = "none", ![c].screen = "menu"]
    /\ trips' = trips + 1
    /\ aop' = [name |-> "leaveGame", client |-> c]
    /\ UNCHANGED << inbox, taps, asked >>
    /\ ServerUntouched

\* the Join button of the menu: joinOnlineGame() with code typed in
JoinOnlineGame(c, code) ==
    /\ Inputs < MaxInputs
    /\ apps[c].screen = "menu"
    /\ apps' = [apps EXCEPT ![c].gameMode = "join"]
    /\ toServer' = [toServer EXCEPT ![c] =
                       Append(@, [ev |-> "game:join", code |-> code,
                                  data |-> [gameState |-> null]])]
    /\ trips' = trips + 1
    /\ aop' = [name |-> "joinOnlineGame", client |-> c]
    /\ UNCHANGED << inbox, taps, asked, gameCode, playerNumber >>
    /\ ServerUntouched

\* the handler's name in sop for a message's event
HandlerName(ev) ==
    IF ev = "game:move" THEN "move"
    ELSE IF ev = "game:rematch" THEN "rematch"
    ELSE IF ev = "game:leave" THEN "leave"
    ELSE "join"

\* the server handles the next message of socket c: game:move, game:rematch,
\* game:leave or game:join
ServerHandles(c) ==
    /\ toServer[c] # << >>
    /\ toServer' = [toServer EXCEPT ![c] = Tail(@)]
    /\ \E m \in {Head(toServer[c])} :
         /\ sop' = [name |-> HandlerName(m.ev), conn |-> c, code |-> m.code]
         /\ IF m.ev = "game:join"
            THEN /\ reply' = JoinReply(games, m.code)
                 /\ IF JoinReply(games, m.code) = "success"
                    THEN /\ games' = [games EXCEPT ![m.code].players = Append(@, c)]
                         /\ currentGameCode' = [currentGameCode EXCEPT ![c] = m.code]
                         /\ subs' = [subs EXCEPT ![c] = @ \cup {m.code}]
                         /\ emitted' =
                              {Event("game:joined", c, m.code, [playerNumber |-> 2])}
                              \cup {Event("game:opponent-joined", x, m.code, [playerId |-> c]) :
                                       x \in Others(subs, c, m.code)}
                    ELSE /\ emitted' = {}
                         /\ UNCHANGED << games, currentGameCode, subs >>
            ELSE IF m.ev = "game:leave"
            THEN /\ \E r \in {leaveGame(games, subs, c, m.code)} :
                      /\ games' = r.games
                      /\ subs' = r.subs
                      /\ emitted' = r.emitted
                 /\ reply' = "none"
                 /\ UNCHANGED currentGameCode
            ELSE /\ reply' = "none"
                 /\ UNCHANGED << currentGameCode, subs >>
                 /\ IF ~ hasGame(games, m.code)
                    THEN /\ emitted' = {}
                         /\ UNCHANGED games
                    ELSE IF m.ev = "game:move"
                    THEN /\ games' = [games EXCEPT ![m.code].gameState = m.data.gameState]
                         /\ emitted' = {Event("game:move", x, m.code, m.data) :
                                           x \in Others(subs, c, m.code)}
                    ELSE IF BothRequested(games[m.code].rematchRequests \cup {c})
                    THEN /\ games' = [games EXCEPT ![m.code].gameState = null,
                                                   ![m.code].currentPlayer = 1,
                                                   ![m.code].rematchRequests = {}]
                         /\ emitted' = {Event("game:rematch", x, m.code, [gameState |-> null]) :
                                           x \in Everyone(subs, m.code)}
                    ELSE /\ games' = [games EXCEPT ![m.code].rematchRequests = @ \cup {c}]
                         /\ emitted' = {Event("game:rematch-requested", x, m.code,
                                              [playerId |-> c]) :
                                           x \in Others(subs, c, m.code)}
    /\ inbox' = Deliveries(inbox, emitted')
    /\ aop' = [name |-> "server", client |-> c]
    /\ UNCHANGED << apps, taps, asked, trips, connected, gameCode,
                    playerNumber, now, steps, gen, gameVars, engineVars, copyVars >>

NextClient ==
    \/ \E c \in Apps, col \in AppColumns : HandleMove(c, col)
    \/ \E c \in Apps : \E k \in apps[c].pending : AfterDrop(c, k)
    \/ \E c \in Apps : \E k \in apps[c].pending : AfterOpponentDrop(c, k)
    \/ \E c \in Apps : \E k \in apps[c].pending : AfterResult(c, k)
    \/ \E c \in Apps : Receive(c)
    \/ \E c \in Apps : RequestRematch(c)
    \/ \E c \in Apps : LeaveGame(c)
    \/ \E c \in Apps, code \in Codes : JoinOnlineGame(c, code)
    \/ \E c \in Apps : ServerHandles(c)

SpecClient == InitClient /\ [][NextClient]_vars

-----------------------------------------------------------------------------
(* Properties *)

\* player has four consecutive cells in a horizontal, vertical or diagonal line of b
HasLine(b, player) ==
    \E s \in Segments : \A x \in SegCells(s) : b[x.row][x.col] = player

\* column c of b is a stack of exactly n pieces resting on the bottom
Stacked(b, c, n) == \A r \in RowIdx : (b[r][c] # EMPTY) <=> (r >= ROWS - n)

\* the cells in which boards a and b differ
Changed(a, b) == { x \in { Cell(r, c) : r \in RowIdx, c \in ColIdx } : a[x.row][x.col] # b[x.row][x.col] }

Pieces(b) == Cardinality({ x \in { Cell(r, c) : r \in RowIdx, c \in ColIdx } : b[x.row][x.col] # EMPTY })

\* C1: once gameOver is true every makeMove call returns success = false and leaves
\* every GameState field unchanged; a winner once set is kept by every makeMove call.
C1_GameOverRejectsMoves ==
    [][ (op' = "makeMove") =>
          /\ gameOver => (ret'.success = FALSE /\ UNCHANGED gameFields)
          /\ winner # null => winner' = winner ]_vars

C1_Witness ==
    /\ op = "makeMove" /\ ~ ret.success
    /\ gameOver /\ winner = PLAYER_YELLOW
    /\ arg \in ColIdx /\ board[0][arg] = EMPTY

\* C2: makeMove with a column outside 0..COLS-1, or with a column whose ROWS cells
\* are all occupied, returns success = false and leaves every GameState field unchanged.
C2_IllegalMoveRejected ==
    [][ ( /\ op' = "makeMove"
          /\ \/ arg' \notin ColIdx
             \/ \A r \in RowIdx : board[r][arg'] # EMPTY )
        => (ret'.success = FALSE /\ UNCHANGED gameFields) ]_vars

C2_Witness ==
    /\ op = "makeMove" /\ ~ ret.success /\ ~ gameOver
    /\ arg \in ColIdx /\ \A r \in RowIdx : board[r][arg] # EMPTY

\* C3: a successful makeMove that does not end the game hands the turn to the other
\* player; a failed makeMove leaves currentPlayer unchanged.
C3_TurnAlternation ==
    [][ (op' = "makeMove") =>
          /\ (ret'.success /\ ~ gameOver') =>
                (currentPlayer' \in Players /\ currentPlayer' # currentPlayer)
          /\ ~ ret'.success => currentPlayer' = currentPlayer ]_vars

C3_Witness ==
    /\ op = "makeMove" /\ ret.success /\ ~ gameOver
    /\ currentPlayer = PLAYER_RED /\ moved >= 2

\* C4: gravity: no EMPTY cell lies below an occupied cell of the same column.
C4_Gravity ==
    \A c \in ColIdx : \A r \in 0 .. (ROWS - 2) :
        board[r][c] # EMPTY => board[r + 1][c] # EMPTY

C4_Witness ==
    /\ op = "makeMove" /\ ret.success /\ moved >= 2
    /\ ret.row < ROWS - 1 /\ board[ret.row + 1][arg] # EMPTY

\* C5: dropPiece into an in-range column holding n stacked pieces lands at row
\* ROWS-1-n and writes the player there when n < ROWS; when n = ROWS it returns
\* success = false, row = -1 and the board unchanged.
C5_DropLandsOnStack ==
    [][ \A n \in 0 .. ROWS :
          (bop' = "dropPiece" /\ bcol' \in ColIdx /\ Stacked(inBoard, bcol', n)) =>
             IF n < ROWS
             THEN /\ dropRet'.success
                  /\ dropRet'.row = ROWS - 1 - n
                  /\ dropRet'.board[ROWS - 1 - n][bcol'] = bplayer'
             ELSE /\ ~ dropRet'.success
                  /\ dropRet'.row = -1
                  /\ dropRet'.board = inBoard ]_vars

C5_Witness ==
    /\ bop = "dropPiece" /\ bcol \in ColIdx
    /\ dropRet.success /\ dropRet.row = 0
    /\ Stacked(dropRet.board, bcol, ROWS)

\* C6: dropPiece leaves the board it was given as it was, and on success the board
\* it returns differs from that board in exactly the landing cell.
C6_DropKeepsInput ==
    [][ (bop' = "dropPiece") =>
          /\ inBoard' = inBoard
          /\ dropRet'.success =>
                Changed(inBoard, dropRet'.board) = { Cell(dropRet'.row, bcol') }
          /\ ~ dropRet'.success => dropRet'.board = inBoard ]_vars

C6_Witness ==
    /\ bop = "dropPiece" /\ dropRet.success
    /\ dropRet.board # inBoard /\ Pieces(inBoard) >= 4

\* C7: monotonic fill: a makeMove call never changes a non-empty cell, and a
\* successful one changes exactly one cell, from EMPTY to the mover.
C7_MonotonicFill ==
    [][ (op' = "makeMove") =>
          /\ \A r \in RowIdx, c \in ColIdx :
                board[r][c] # EMPTY => board'[r][c] = board[r][c]
          /\ ret'.success =>
                /\ Cardinality(Changed(board, board')) = 1
                /\ \A x \in Changed(board, board') :
                      board[x.row][x.col] = EMPTY /\ board'[x.row][x.col] = currentPlayer
          /\ ~ ret'.success => board' = board ]_vars

C7_Witness ==
    /\ op = "makeMove" /\ ret.success /\ moved >= 3
    /\ Pieces(board) = Len(moveHistory) /\ ret.row < ROWS - 2

\* C8: checkWin reports won exactly when the player has four in a line; the cells
\* it returns are the four cells of such a line; otherwise cells is empty.
C8_CheckWinExact ==
    (bop = "checkWin") =>
        /\ winRet.won <=> HasLine(inBoard, bplayer)
        /\ winRet.won =>
              /\ Len(winRet.cells) = 4
              /\ \E s \in Segments :
                    /\ SegCells(s) = { winRet.cells[i] : i \in 1 .. 4 }
                    /\ \A x \in SegCells(s) : inBoard[x.row][x.col] = bplayer
        /\ ~ winRet.won => winRet.cells = << >>

\* three of the player in a line, the fourth cell empty or the other player's
C8_Witness ==
    /\ bop = "checkWin" /\ ~ winRet.won
    /\ \E s \in Segments :
          Cardinality({ x \in SegCells(s) : inBoard[x.row][x.col] = bplayer }) = 3

\* position of a line in the scan: orientation first, then start row, then start column
Rank(s) ==
    IF s.dr = 0 THEN 0 ELSE IF s.dc = 0 THEN 1 ELSE IF s.dr = -1 THEN 2 ELSE 3

Before(s, t) ==
    \/ Rank(s) < Rank(t)
    \/ Rank(s) = Rank(t) /\ s.row < t.row
    \/ Rank(s) = Rank(t) /\ s.row = t.row /\ s.col <= t.col

LinesOf(b, player) ==
    { s \in Segments : \A x \in SegCells(s) : b[x.row][x.col] = player }

\* C9: of several lines checkWin returns the first in scan order: horizontal (rows
\* top to bottom, columns left to right), then vertical, then the rising diagonal,
\* then the falling diagonal.
C9_FirstInScanOrder ==
    (bop = "checkWin" /\ LinesOf(inBoard, bplayer) # {}) =>
        \E s \in LinesOf(inBoard, bplayer) :
            /\ \A t \in LinesOf(inBoard, bplayer) : Before(s, t)
            /\ winRet.won
            /\ winRet.cells = << Cell(s.row, s.col), Cell(s.row + s.dr, s.col + s.dc),
                                 Cell(s.row + 2 * s.dr, s.col + 2 * s.dc),
                                 Cell(s.row + 3 * s.dr, s.col + 3 * s.dc) >>

C9_Witness ==
    /\ bop = "checkWin" /\ winRet.won
    /\ \E s, t \in LinesOf(inBoard, bplayer) : Rank(s) = 0 /\ Rank(t) = 1
    /\ winRet.cells[1].row = winRet.cells[4].row

\* C10: after a successful makeMove by player p, winner is set iff p has four in a
\* line on the new board; then winner = p, gameOver, winningCells are checkWin's
\* cells and the returned value carries success, winner = p, isDraw = false.
C10_WinnerIffLine ==
    [][ (op' = "makeMove" /\ ret'.success) =>
          /\ (winner' # null) <=> HasLine(board', currentPlayer)
          /\ HasLine(board', currentPlayer) =>
                /\ winner' = currentPlayer
                /\ gameOver'
                /\ winningCells' = checkWin(board', currentPlayer).cells
                /\ winningCells' # << >>
                /\ ret'.winner = currentPlayer
                /\ ret'.winningCells = winningCells'
                /\ ret'.isDraw = FALSE
          /\ ~ HasLine(board', currentPlayer) => ret'.winner = null ]_vars

C10_Witness ==
    /\ op = "makeMove" /\ ret.success
    /\ winner = PLAYER_YELLOW /\ gameOver
    /\ HasLine(board, PLAYER_YELLOW) /\ ret.winner = PLAYER_YELLOW

\* no cell of b is EMPTY
NoEmpty(b) == \A r \in RowIdx, c \in ColIdx : b[r][c] # EMPTY

\* C11: a successful makeMove that completes no line and leaves no EMPTY cell sets
\* isDraw and gameOver and leaves winner unset; whenever isDraw holds the board has
\* no EMPTY cell and neither player has four in a line.
C11_Draw ==
    /\ [] (isDraw => /\ NoEmpty(board)
                     /\ ~ HasLine(board, PLAYER_RED)
                     /\ ~ HasLine(board, PLAYER_YELLOW))
    /\ [][ ( /\ op' = "makeMove" /\ ret'.success
             /\ ~ HasLine(board', currentPlayer)
             /\ NoEmpty(board') )
           => (isDraw' /\ gameOver' /\ winner' = null /\ ret'.isDraw /\ ret'.winner = null) ]_vars

C11_Witness ==
    /\ op = "makeMove" /\ ret.success /\ ret.isDraw
    /\ isDraw /\ gameOver /\ winner = null /\ NoEmpty(board)

\* C12: winningCells is empty while winner is unset; once winner is set it is four
\* distinct cells of one line of four, each holding the winner's value.
C12_WinningCells ==
    /\ winner = null => winningCells = << >>
    /\ winner # null =>
          /\ Len(winningCells) = 4
          /\ Cardinality({ winningCells[i] : i \in 1 .. 4 }) = 4
          /\ \E s \in Segments : SegCells(s) = { winningCells[i] : i \in 1 .. 4 }
          /\ \A i \in 1 .. 4 : board[winningCells[i].row][winningCells[i].col] = winner

C12_Witness ==
    /\ op = "makeMove" /\ ret.success /\ winner = PLAYER_RED
    /\ Len(winningCells) = 4 /\ winningCells[1].row = ROWS - 1

\* C13: a successful makeMove appends exactly one entry {col, row, player} (the
\* column played, the landing row, the mover) to moveHistory and keeps the earlier
\* entries; a failed makeMove leaves moveHistory unchanged.
C13_HistoryAppendOnly ==
    [][ (op' = "makeMove") =>
          /\ ret'.success =>
                /\ Len(moveHistory') = Len(moveHistory) + 1
                /\ \A i \in 1 .. Len(moveHistory) : moveHistory'[i] = moveHistory[i]
                /\ moveHistory'[Len(moveHistory')] =
                      [col |-> arg', row |-> ret'.row, player |-> currentPlayer]
                /\ board'[ret'.row][arg'] = currentPlayer
          /\ ~ ret'.success => moveHistory' = moveHistory ]_vars

C13_Witness ==
    /\ op = "makeMove" /\ ret.success /\ moved >= 2 /\ Len(moveHistory) >= 8
    /\ moveHistory[Len(moveHistory)].col = arg
    /\ moveHistory[Len(moveHistory) - 1].player # moveHistory[Len(moveHistory)].player

\* C15: reset() in any state, finished games included, gives the initial state:
\* all cells EMPTY, currentPlayer = 1, no history, no winner, no winning cells,
\* isDraw and gameOver false; makeMove is accepted again.
C15_ResetRestores ==
    (op = "reset") =>
        /\ \A r \in RowIdx, c \in ColIdx : board[r][c] = EMPTY
        /\ currentPlayer = 1
        /\ moveHistory = << >>
        /\ winner = null
        /\ winningCells = << >>
        /\ isDraw = FALSE
        /\ gameOver = FALSE
        /\ \A c \in ColIdx : makeMove(This, c).ret.success

\* reset() was called on a finished game
C15_Witness ==
    /\ op = "reset" /\ wasOver
    /\ ~ gameOver /\ moveHistory = << >>

\* C14: t.deserialize(s.serialize()), for s and t in any states (in progress, won,
\* drawn, fresh), leaves every field of t equal to the corresponding field of s,
\* and s as it was.
C14_SerializeRoundTrip ==
    [][ (cop = "serialize" /\ cop' = "deserialize") =>
          /\ View(objs', hist', cobj') = View(objs, hist, cobj)
          /\ View(objs', hist', cobj) = View(objs, hist, cobj)
          /\ objs'[cobj'] = objs[cobj] ]_vars

\* a finished game was copied over an object that held a different, unfinished one
C14_Witness ==
    /\ cop = "deserialize" /\ cobj = "t"
    /\ objs["t"] = serialize(objs["s"])
    /\ objs["t"].gameOver /\ objs["t"].winner = PLAYER_RED
    /\ Len(objs["t"].winningCells) = 4
    /\ cmoved = 1

\* C16: game:join for a code with no live room is answered "Game not found", for a
\* room with two players "Game is full"; otherwise the joiner is appended and the
\* room has exactly two players.  A failed join changes no room (players, gameState,
\* rematchRequests) and subscribes the joiner to nothing.
C16_JoinOutcomes ==
    [][ (sop'.name = "join") =>
          /\ ~ hasGame(games, sop'.code) => reply' = "Game not found"
          /\ (hasGame(games, sop'.code) /\ Len(games[sop'.code].players) = 2)
                => reply' = "Game is full"
          /\ (hasGame(games, sop'.code) /\ Len(games[sop'.code].players) < 2)
                => /\ reply' = "success"
                   /\ games'[sop'.code].players = Append(games[sop'.code].players, sop'.conn)
                   /\ Len(games'[sop'.code].players) = 2
                   /\ sop'.code \in subs'[sop'.conn]
          /\ reply' # "success" => (games' = games /\ subs' = subs)
          /\ reply' \in {"Game not found", "Game is full", "success"} ]_vars

\* a join for a room that was swept while its creator was still subscribed to it
C16_Witness ==
    /\ sop.name = "join" /\ reply = "Game not found"
    /\ ~ hasGame(games, sop.code)
    /\ \E c \in Conns : c # sop.conn /\ sop.code \in subs[c] /\ currentGameCode[c] = sop.code
    /\ now >= 2 * HOUR

\* C17: after every handler every live room has one or two players.
C17_OneOrTwoPlayers ==
    \A code \in DOMAIN games : Len(games[code].players) \in {1, 2}

\* the last occupant's leave has just removed a room while a full room lives on
C17_Witness ==
    /\ sop.name \in {"leave", "disconnect"}
    /\ ~ hasGame(games, sop.code)
    /\ emitted = {}
    /\ \E code \in DOMAIN games : Len(games[code].players) = 2
    /\ steps >= 2

\* C18: after a connection's disconnect was handled, its id is in the players list of
\* no live room.
C18_DisconnectLeavesAll ==
    \A conn \in Conns \ connected, code \in DOMAIN games :
        conn \notin Range(games[code].players)

\* C19: in every room with two occupants one client holds player number 1 and the
\* other player number 2.
C19_NumbersDiffer ==
    \A code \in DOMAIN games :
        Len(games[code].players) = 2 =>
            { playerNumber[games[code].players[i]] : i \in 1 .. 2 } = {1, 2}

\* C20: game:leave from an occupant removes its id from that room and changes no
\* other room; a room left empty is deleted; otherwise the room survives with
\* exactly the remaining player and game:join for its code would succeed.
C20_LeaveOutcomes ==
    [][ ( /\ sop'.name = "leave"
          /\ hasGame(games, sop'.code)
          /\ sop'.conn \in Range(games[sop'.code].players) ) =>
          /\ \A k \in DOMAIN games \ {sop'.code} : hasGame(games', k) /\ games'[k] = games[k]
          /\ DOMAIN games' \subseteq DOMAIN games
          /\ IF \A i \in DOMAIN games[sop'.code].players :
                    games[sop'.code].players[i] = sop'.conn
             THEN ~ hasGame(games', sop'.code)
             ELSE /\ hasGame(games', sop'.code)
                  /\ sop'.conn \notin Range(games'[sop'.code].players)
                  /\ Len(games'[sop'.code].players) = 1
                  /\ games'[sop'.code].players[1] \in Range(games[sop'.code].players)
                  /\ games'[sop'.code] = [games[sop'.code] EXCEPT !.players = games'[sop'.code].players]
                  /\ JoinReply(games', sop'.code) = "success" ]_vars

\* the creator left a full room while another room existed; the joiner stays alone
C20_Witness ==
    /\ sop.name = "leave"
    /\ hasGame(games, sop.code)
    /\ games[sop.code].hostId = sop.conn
    /\ Len(games[sop.code].players) = 1
    /\ games[sop.code].players[1] # sop.conn
    /\ \E k \in DOMAIN games : k # sop.code
    /\ \E c \in Conns : Event("game:opponent-left", c, sop.code, [playerId |-> sop.conn]) \in emitted

\* the opponent-left notices the last handler sent to socket c about room code
LeftNotices(em, c, code) == {e \in em : e.ev = "game:opponent-left" /\ e.to = c /\ e.code = code}

\* C21: when one of the two occupants of a room leaves or disconnects, the other
\* occupant gets exactly one opponent-left notice for that departure: one when the
\* occupant is removed, and none when the departed connection, no longer an
\* occupant, disconnects later.
C21_OneNoticePerDeparture ==
    [][ (sop'.name \in {"leave", "disconnect"} /\ hasGame(games, sop'.code)) =>
          /\ ( /\ Len(games[sop'.code].players) = 2
               /\ sop'.conn \in Range(games[sop'.code].players) )
             => \A c \in (Range(games[sop'.code].players) \cap connected) \ {sop'.conn} :
                    Cardinality(LeftNotices(emitted', c, sop'.code)) = 1
          /\ ( /\ sop'.name = "disconnect"
               /\ sop'.conn \notin Range(games[sop'.code].players) )
             => \A c \in Range(games[sop'.code].players) :
                    LeftNotices(emitted', c, sop'.code) = {} ]_vars

\* the events the last handler sent to socket c
EventsTo(em, c) == {e \in em : e.to = c}

C23_RematchNeedsBoth ==
    [][ ( /\ sop'.name = "rematch"
          /\ hasGame(games, sop'.code)
          /\ games'[sop'.code].rematchRequests = {} ) =>
          /\ Len(games[sop'.code].players) = 2
          /\ Cardinality(Range(games[sop'.code].players)) = 2
          /\ sop'.conn \in Range(games[sop'.code].players)
          /\ Range(games[sop'.code].players) \subseteq
                games[sop'.code].rematchRequests \cup {sop'.conn} ]_vars

\* C24: game:move for a live room stores the payload's gameState as the room's
\* gameState and sends column, row and gameState as received to every other socket
\* in the room, never to the sender; nothing else of any room changes and no payload
\* is refused.
C24_MoveRelay ==
    [][ (sop'.name = "move" /\ hasGame(games, sop'.code)) =>
          \E data \in Payloads :
            /\ games' = [games EXCEPT ![sop'.code].gameState = data.gameState]
            /\ emitted' = {Event("game:move", c, sop'.code, data) :
                              c \in {x \in Conns \ {sop'.conn} : sop'.code \in subs[x]}}
            /\ EventsTo(emitted', sop'.conn) = {}
            /\ subs' = subs ]_vars

\* the payload no game produces was stored and relayed to both occupants by a
\* sender that is not in the room
C24_Witness ==
    /\ sop.name = "move"
    /\ hasGame(games, sop.code)
    /\ games[sop.code].gameState = 2
    /\ sop.conn \notin Range(games[sop.code].players)
    /\ Cardinality(emitted) = 2
    /\ \A e \in emitted : e.data = [column |-> 9, row |-> -1, gameState |-> 2]

\* C25: game:create makes a room under a code no live room has, with
\* players = [creator], gameState = null and no rematch request, and leaves every
\* room that was live unchanged.
C25_CreateFresh ==
    [][ (sop'.name = "create") =>
          /\ ~ hasGame(games, sop'.code)
          /\ DOMAIN games' = DOMAIN games \cup {sop'.code}
          /\ games'[sop'.code].code = sop'.code
          /\ games'[sop'.code].hostId = sop'.conn
          /\ games'[sop'.code].players = << sop'.conn >>
          /\ games'[sop'.code].gameState = null
          /\ games'[sop'.code].rematchRequests = {}
          /\ games'[sop'.code].createdAt = now
          /\ \A k \in DOMAIN games : games'[k] = games[k]
          /\ reply' = "success" ]_vars

\* a room was created while a two-player room with a cached game was live
C25_Witness ==
    /\ sop.name = "create"
    /\ hasGame(games, sop.code)
    /\ \E k \in DOMAIN games \ {sop.code} :
          Len(games[k].players) = 2 /\ games[k].gameState # null

\* C27: a sweep deletes exactly the rooms with createdAt older than one hour before
\* the sweep, whatever their players and cached game, and leaves the others unchanged.
C27_SweepExact ==
    [][ (sop'.name = "sweep") =>
          /\ DOMAIN games' = {k \in DOMAIN games : games[k].createdAt >= now - HOUR}
          /\ \A k \in DOMAIN games' : games'[k] = games[k] ]_vars

\* a sweep removed a room two sockets are still in and kept a younger room
C27_Witness ==
    /\ sop.name = "sweep"
    /\ \E code \in Codes :
          /\ ~ hasGame(games, code)
          /\ Cardinality({c \in Conns : code \in subs[c]}) = 2
    /\ \E k \in DOMAIN games : games[k].createdAt = now - HOUR

\* C26: game:create always terminates: once the handler has entered generateGameCode
\* it leaves the loop, with a code or with a failure, also when every code is in use.
C26_CreateTerminates == Generating ~> ~ Generating


\* the five fields of a GameState that the two players see
Seen(gs) ==
    [board |-> gs.board, currentPlayer |-> gs.currentPlayer, winner |-> gs.winner,
     isDraw |-> gs.isDraw, gameOver |-> gs.gameOver]

\* C28: when a client has handled an inbound game:move message, its local GameState
\* equals the gameState the message carries, field for field, whatever the local
\* state was before (the transmitted state is applied, not recomputed from the column).
C28_MoveApplied ==
    [][ (aop'.name = "receive" /\ aop'.event.ev = "game:move") =>
          serialize(apps'[aop'.client].gameState) = aop'.event.data.gameState ]_vars

\* C29: every game:move message a client emits carries the sender's piece at the
\* reported (row, column) and equals the sender's GameState right after its own
\* makeMove, whatever arrived between that makeMove and the emit.
C29_SentStateIsOwnMove ==
    [][ (aop'.name = "sendMove" /\ Len(toServer'[aop'.client]) > Len(toServer[aop'.client])) =>
          \E m \in {toServer'[aop'.client][Len(toServer'[aop'.client])]} :
            /\ m.data.gameState = serialize(aop'.waited.made)
            /\ m.data.gameState.board[m.data.row][m.data.column] =
                  playerNumber[aop'.client] ]_vars

\* both clients are occupants of one room and know its code
Paired ==
    \E code \in DOMAIN games :
        /\ Range(games[code].players) = Apps
        /\ \A c \in Apps : gameCode[c] = code /\ Online(apps[c])

\* no message is on its way and no client is handling a move
Quiet ==
    /\ \A c \in Apps : toServer[c] = << >> /\ inbox[c] = << >>
    /\ \A c \in Apps : apps[c].pending = {} /\ ~ apps[c].isProcessingMove

\* C30: whenever both clients are in the room, no message is in flight and neither
\* client is handling a move, the two clients hold the same board, currentPlayer, winner, isDraw and
\* gameOver.
C30_Convergence ==
    (apps # << >> /\ Paired /\ Quiet) =>
        Seen(apps["a"].gameState) = Seen(apps["b"].gameState)


\* C33: on every board reached by legal moves, isBoardFull (no EMPTY cell in the top
\* row) holds exactly when no cell of the whole board is EMPTY.
C33_TopRowFullIffBoardFull == isBoardFull(board) <=> NoEmpty(board)

\* the move into the last empty cell has filled the top row and the board
C33_Witness ==
    /\ op = "makeMove" /\ ret.success
    /\ isBoardFull(board) /\ NoEmpty(board)
    /\ Len(moveHistory) = ROWS * COLS

\* the cell of the last moveHistory entry
LastCell(h) == Cell(h[Len(h)].row, h[Len(h)].col)

\* C34: whenever winner is set, winningCells contains the cell of the last
\* moveHistory entry: the reported line passes through the piece that won.
C34_LineThroughLastPiece ==
    winner # null =>
        /\ moveHistory # << >>
        /\ LastCell(moveHistory) \in Range(winningCells)

\* a move that completed two lines at once has won, and the reported line (the
\* first in scan order) holds the piece just dropped
C34_Witness ==
    /\ op = "makeMove" /\ ret.success /\ winner # null
    /\ Cardinality({s \in Segments :
                      \A x \in SegCells(s) : board[x.row][x.col] = winner}) >= 2
    /\ LastCell(moveHistory) \in Range(winningCells)

\* C35: gameOver holds exactly when winner is set or isDraw holds; winner and isDraw
\* never hold together; a set winner is the player of the last moveHistory entry and
\* is currentPlayer (the winning move does not switch the player).
C35_TerminalConsistent ==
    /\ gameOver <=> (winner # null \/ isDraw)
    /\ ~ (winner # null /\ isDraw)
    /\ winner # null =>
          /\ moveHistory # << >>
          /\ winner = moveHistory[Len(moveHistory)].player
          /\ winner = currentPlayer

\* yellow has just won
C35_Witness ==
    /\ op = "makeMove" /\ ret.success
    /\ gameOver /\ ~ isDraw /\ winner = PLAYER_YELLOW
    /\ currentPlayer = PLAYER_YELLOW
    /\ moveHistory[Len(moveHistory)].player = PLAYER_YELLOW

\* the number of cells of b that hold v
Count(b, v) == Cardinality({x \in RowIdx \X ColIdx : b[x[1]][x[2]] = v})

\* C36: the length of moveHistory is the number of non-empty cells; red has as many
\* pieces as yellow or one more; while the game is not over, currentPlayer is red
\* exactly when the number of moves made is even.
C36_Counts ==
    /\ Len(moveHistory) = Count(board, PLAYER_RED) + Count(board, PLAYER_YELLOW)
    /\ Count(board, PLAYER_RED) - Count(board, PLAYER_YELLOW) \in {0, 1}
    /\ ~ gameOver => ((currentPlayer = PLAYER_RED) <=> (Len(moveHistory) % 2 = 0))

\* three moves into a new game: two red pieces, one yellow, yellow to move
C36_Witness ==
    /\ op = "makeMove" /\ ret.success /\ ~ gameOver
    /\ Len(moveHistory) = 3
    /\ Count(board, PLAYER_RED) = 2 /\ Count(board, PLAYER_YELLOW) = 1
    /\ currentPlayer = PLAYER_YELLOW


\* C38: a leave or disconnect sends an opponent-left notice only when it removes the
\* sender from the players list of the room; a leave naming a room the sender is not
\* (or no longer) an occupant of sends no notice.
C38_NoticeOnlyOnRemoval ==
    [][ (sop'.name \in {"leave", "disconnect"}) =>
          \A e \in emitted' :
             e.ev = "game:opponent-left" =>
                /\ hasGame(games, e.code)
                /\ sop'.conn \in Range(games[e.code].players) ]_vars

\* C39: the players list of a room never holds the same connection id twice, for
\* any sequence of create and join requests, a join by the room's creator included.
C39_PlayersDistinct ==
    \A code \in DOMAIN games :
        Cardinality(Range(games[code].players)) = Len(games[code].players)


\* the snapshot with its moveHistory array read from the heap
SnapView(sn, h) == [sn EXCEPT !.moveHistory = h[@]]

\* C40: an object returned by serialize() is a stable snapshot: a later makeMove on
\* any GameState changes neither the snapshot's board nor its moveHistory, and a move
\* on one GameState changes no other GameState, after deserialize(snapshot) too.
C40_SnapshotStable ==
    [][ (cop' = "makeMove" /\ snap # << >>) =>
          /\ SnapView(snap', hist') = SnapView(snap, hist)
          /\ \A o \in Objects \ {cobj'} : View(objs', hist', o) = View(objs, hist, o) ]_vars


\* C31: isMyTurn(currentPlayer) is true exactly when the client's playerNumber equals
\* currentPlayer; in online mode handleMove changes the GameState only when the
\* client's playerNumber equals its local currentPlayer; a client in online mode
\* with no player number changes nothing on a tap.
C31_TurnGate ==
    /\ [] ( /\ \A n \in {null, 1, 2}, p \in Players : isMyTurn(n, p) <=> (n = p)
            /\ \A c \in DOMAIN apps, col \in AppColumns :
                  Online(apps[c]) => handleMove(apps[c], null, col).app = apps[c] )
    /\ [][ ( /\ aop'.name = "handleMove"
             /\ Online(apps[aop'.client])
             /\ apps'[aop'.client].gameState # apps[aop'.client].gameState )
           => playerNumber[aop'.client] = apps[aop'.client].gameState.currentPlayer ]_vars

\* the client whose turn it is not has tapped a column that makeMove would accept
\* and was turned away by the gate
C31_Witness ==
    /\ aop.name = "handleMove" /\ aop.did = "not my turn"
    /\ Online(apps[aop.client])
    /\ playerNumber[aop.client] = PLAYER_YELLOW
    /\ apps[aop.client].gameState.currentPlayer = PLAYER_RED
    /\ dropPiece(apps[aop.client].gameState.board, aop.col, PLAYER_RED).success

\* the tap of column col on client c is one handleMove turns away: the game is
\* over, the column is full or outside the board, or it is not this client's turn
TurnedAway(c, col) ==
    \/ apps[c].gameState.gameOver
    \/ ~ dropPiece(apps[c].gameState.board, col, apps[c].gameState.currentPlayer).success
    \/ (Online(apps[c]) /\ playerNumber[c] # apps[c].gameState.currentPlayer)

\* C32: a client emits a game:move message only for a column its local makeMove
\* accepted; a tap that is turned away (game over, column full or out of range, not
\* this client's turn) sends nothing, now or later, and leaves the GameState as it was.
C32_RejectedSendsNothing ==
    [][ /\ (aop'.name = "handleMove" /\ TurnedAway(aop'.client, aop'.col)) =>
             /\ apps' = apps
             /\ toServer' = toServer
        /\ \A c \in Apps :
             ( /\ Len(toServer'[c]) > Len(toServer[c])
               /\ toServer'[c][Len(toServer'[c])].ev = "game:move" ) =>
                 /\ aop'.name = "sendMove" /\ aop'.client = c
                 /\ aop'.waited \in apps[c].pending
                 /\ aop'.waited.made.moveHistory # << >>
                 /\ LastCell(aop'.waited.made.moveHistory) =
                       Cell(toServer'[c][Len(toServer'[c])].data.row,
                            toServer'[c][Len(toServer'[c])].data.column) ]_vars

\* a tap on the full column 3 was rejected by makeMove on the client whose turn it is
C32_Witness ==
    /\ aop.name = "handleMove" /\ aop.did = "rejected" /\ aop.col = 3
    /\ isColumnFull(apps[aop.client].gameState.board, 3)
    /\ isMyTurn(playerNumber[aop.client], apps[aop.client].gameState.currentPlayer)
    /\ apps[aop.client].pending = {}

\* the clients that pass the isMyTurn gate of handleMove
Movers == {c \in Apps : isMyTurn(playerNumber[c], apps[c].gameState.currentPlayer)}

\* C37: in a room with two connected clients, whenever no message is in flight and
\* the game is over on neither client, exactly one of the two passes its isMyTurn
\* gate: never both and never neither.
C37_OneMover ==
    ( /\ apps # << >>
      /\ Paired
      /\ Quiet
      /\ \A c \in Apps : ~ apps[c].gameState.gameOver )
    => Cardinality(Movers) = 1

=============================================================================
